---- MODULE Spec2Model ----
(***************************************************************************)
(* Model of etl.py: the Sparkify ETL job.  process_song_data writes the    *)
(* songs and artists tables, process_log_data writes users, time and       *)
(* songplays (the last by a left join of the filtered log with the         *)
(* persisted songs table), and main runs the two in that order.            *)
(*                                                                         *)
(* A DataFrame is a bag of rows: a function from rows to positive counts.  *)
(* A column value is a string, Null for SQL NULL; the epoch-millisecond    *)
(* column ts is a record [kind, val] so that a JSON number and a JSON      *)
(* string can both be read.  Session time zone is taken to be UTC.         *)
(***************************************************************************)
EXTENDS Integers, FiniteSets, Sequences, Bags, TLC

VARIABLES
    pc,          \* position of the running program ("idle" before any call)
    caller,      \* who invoked the running function: "main" or "driver"
    input,       \* records of the files the read of the running function matched
    dataframe,   \* the local variable `dataframe` of the running function
    song_df,     \* the local variable `song_df` of process_log_data
    tables,      \* the parquet directories under output_data
    written,     \* the tables the current invocation has committed so far
    last_write,  \* history: the rows of each table's most recent committed write
    err          \* the exception that ended the last call, "none" if none

vars == <<pc, caller, input, dataframe, song_df, tables, written, last_write, err>>

----------------------------------------------------------------------------
(* Bounds *)

\* most records one read of an input path returns
MaxRecords == 2

----------------------------------------------------------------------------
(* Values *)

Null == "NULL"

TableNames == {"songs", "artists", "users", "time", "songplays"}

\* song-metadata records found under song_data/
SongRecord(sid, t, loc) ==
    [song_id |-> sid, title |-> t, artist_id |-> "AR1", artist_name |-> "Elena",
     artist_location |-> loc, artist_latitude |-> Null, artist_longitude |-> Null,
     year |-> "2000", duration |-> "269.58338"]

SongRecords ==
    {SongRecord("SO1", "Setanta matins", "Dubai"),
     SongRecord("SO2", "Setanta matins", "Dubai"),
     SongRecord("SO1", "Other", Null),
     SongRecord("SO2", "Other", "Dubai")}

Num(n) == [kind |-> "number", val |-> n]
Str == [kind |-> "string", val |-> 0]

\* activity records found under log_data/
LogRecord(p, t, s, len) ==
    [page |-> p, ts |-> t, userId |-> "8", firstName |-> "Kaylee",
     lastName |-> "Summers", gender |-> "F", level |-> "free",
     song |-> s, artist |-> "Elena", length |-> len, sessionId |-> "139",
     location |-> "Phoenix", userAgent |-> "Mozilla"]

LogRecords ==
    {LogRecord("NextSong", Num(1000), "Setanta matins", "269.58338"),
     LogRecord("NextSong", Num(1000), Null, "269.58338"),
     LogRecord("NextSong", Num(0 - 1000), "Setanta matins", "269.58338"),
     LogRecord("NextSong", Str, "Setanta matins", "269.58338"),
     LogRecord("Home", Num(1000), "Setanta matins", "269.58338")}

----------------------------------------------------------------------------
(* Bags of rows *)

RECURSIVE SumOver(_, _)
SumOver(b, S) ==
    IF S = {} THEN 0
    ELSE LET r == CHOOSE x \in S : TRUE IN b[r] + SumOver(b, S \ {r})

Rows(b) == DOMAIN b

Count(b) == SumOver(b, DOMAIN b)

\* the bag holding the elements of a sequence
BagOfSeq(s) ==
    LET rng == {s[i] : i \in DOMAIN s}
    IN  [r \in rng |-> Cardinality({i \in DOMAIN s : s[i] = r})]

\* every result a read of at most n records can return
Inputs(Records, n) ==
    UNION {{BagOfSeq(s) : s \in [1..k -> Records]} : k \in 0..n}


EmptyFrame == EmptyBag

\* where(...): the rows that satisfy the condition (keep), with their multiplicities
Where(b, keep) == [r \in keep \cap DOMAIN b |-> b[r]]

\* select / selectExpr: every row r replaced by f[r], multiplicities of equal
\* images added
Select(b, f) ==
    LET out == {f[r] : r \in DOMAIN b}
    IN  [x \in out |-> SumOver(b, {r \in DOMAIN b : f[r] = x})]

\* no deduplication at all
DropDuplicatesKeepAll(b) == b
\* dropDuplicates with no subset: one row of every class of rows equal on all columns
DropDuplicates(b) == [r \in DOMAIN b |-> 1]

\* SQL equality in a predicate: NULL on either side is not a match
SqlEq(a, b) == a # Null /\ b # Null /\ a = b

\* mode("append"): the new rows are added to what the path holds
SaveModeAppend(existing, rows) == existing (+) rows
\* mode("overwrite"): what the path held is replaced by the new rows
SaveMode(existing, rows) == rows

----------------------------------------------------------------------------
(* Reading json *)

\* spark.read.json infers one type per column: a ts column holding a JSON string
\* in any record is read as a string column, in every record
InferTs(in) ==
    IF \E r \in DOMAIN in : r.ts.kind = "string" THEN "string" ELSE "number"

ReadLogJson(in) ==
    Select(in, [r \in DOMAIN in |->
                   [r EXCEPT !.ts = [kind |-> InferTs(in), val |-> r.ts.val]]])

----------------------------------------------------------------------------
(* Timestamps: get_timestamp and the calendar functions of lines 121-130 *)

MsPerSecond == 1000
SecondsPerDay == 24 * 3600

\* datetime.fromtimestamp(x / 1000) for a number x: seconds since the epoch and the
\* milliseconds within the second.  It raises TypeError for a string.
get_timestamp(x) ==
    [seconds |-> x.val \div MsPerSecond, millis |-> x.val % MsPerSecond]

UdfRaises(x) == x.kind # "number"

DayNumber(t) == t.seconds \div SecondsPerDay

\* proleptic Gregorian date of a day number (days since 1970-01-01)
CivilFromDays(z0) ==
    LET z   == z0 + 719468
        era == z \div 146097
        doe == z - era * 146097
        yoe == (doe - doe \div 1460 + doe \div 36524 - doe \div 146096) \div 365
        doy == doe - (365 * yoe + yoe \div 4 - yoe \div 100)
        mp  == (5 * doy + 2) \div 153
        d   == doy - (153 * mp + 2) \div 5 + 1
        m   == IF mp < 10 THEN mp + 3 ELSE mp - 9
        y   == yoe + era * 400 + (IF m <= 2 THEN 1 ELSE 0)
    IN  [year |-> y, month |-> m, day |-> d]

DaysFromCivil(y0, m, d) ==
    LET y   == IF m <= 2 THEN y0 - 1 ELSE y0
        era == y \div 400
        yoe == y - era * 400
        doy == (153 * (IF m > 2 THEN m - 3 ELSE m + 9) + 2) \div 5 + d - 1
        doe == yoe * 365 + yoe \div 4 - yoe \div 100 + doy
    IN  era * 146097 + doe - 719468

hour(t) == (t.seconds % SecondsPerDay) \div 3600
dayofmonth(t) == CivilFromDays(DayNumber(t)).day
month(t) == CivilFromDays(DayNumber(t)).month
year(t) == CivilFromDays(DayNumber(t)).year
\* 1 = Sunday ... 7 = Saturday
dayofweek(t) == ((DayNumber(t) + 4) % 7) + 1
\* ISO 8601 week: the week of the year that holds the Thursday of t's week
weekofyear(t) ==
    LET iso == ((DayNumber(t) + 3) % 7) + 1
        thu == DayNumber(t) - (iso - 1) + 3
        y   == CivilFromDays(thu).year
    IN  (thu - DaysFromCivil(y, 1, 1)) \div 7 + 1

\* lines 123-130: the seven withColumn calls
WithTimeColumns(r) ==
    LET t == get_timestamp(r.ts)
    IN  r @@ [start_time |-> t, hour |-> hour(t), day |-> dayofmonth(t),
              week |-> weekofyear(t), month |-> month(t), year |-> year(t),
              weekday |-> dayofweek(t)]

----------------------------------------------------------------------------
(* Column lists *)

\* lines 57-58
SongsColumns(r) ==
    [song_id |-> r.song_id, title |-> r.title, artist_id |-> r.artist_id,
     artist_name |-> r.artist_name, year |-> r.year, duration |-> r.duration]

\* lines 70-74
ArtistsColumns(r) ==
    [artist_id |-> r.artist_id, name |-> r.artist_name,
     location |-> r.artist_location, latitude |-> r.artist_latitude,
     longitude |-> r.artist_longitude]

\* lines 107-111
UsersColumns(r) ==
    [user_id |-> r.userId, first_name |-> r.firstName, last_name |-> r.lastName,
     gender |-> r.gender, level |-> r.level]

\* lines 134-135
TimeColumns(r) ==
    [start_time |-> r.start_time, hour |-> r.hour, day |-> r.day, week |-> r.week,
     month |-> r.month, year |-> r.year, weekday |-> r.weekday]

\* the two key columns taken from each other's source column
SongplaysColumnsSwapped(j) ==
    [start_time |-> j.df.start_time, user_id |-> j.df.userId, level |-> j.df.level,
     song_id |-> j.song.artist_id, artist_id |-> j.song.song_id,
     session_id |-> j.df.sessionId, location |-> j.df.location,
     user_agent |-> j.df.userAgent, year |-> j.df.year, month |-> j.df.month]
\* lines 158-167; j is a joined row: j.df the log side, j.song the songs side
SongplaysColumns(j) ==
    [start_time |-> j.df.start_time, user_id |-> j.df.userId, level |-> j.df.level,
     song_id |-> j.song.song_id, artist_id |-> j.song.artist_id,
     session_id |-> j.df.sessionId, location |-> j.df.location,
     user_agent |-> j.df.userAgent, year |-> j.df.year, month |-> j.df.month]

----------------------------------------------------------------------------
(* The join of lines 152-157 *)

\* the songs side of a joined row that has no match: every column NULL
NullSong ==
    [song_id |-> Null, title |-> Null, artist_id |-> Null, artist_name |-> Null,
     year |-> Null, duration |-> Null]

JoinCondition(d, s) ==
    /\ SqlEq(d.song, s.title)
    /\ SqlEq(d.artist, s.artist_name)
    /\ SqlEq(d.length, s.duration)

Matches(d, right) == {s \in DOMAIN right : JoinCondition(d, s)}

\* an inner join: the rows of left with no match are dropped
InnerJoin(left, right) ==
    LET pairs == {[df |-> d, song |-> s] : d \in DOMAIN left, s \in DOMAIN right}
        hit   == {j \in pairs : JoinCondition(j.df, j.song)}
    IN  [j \in hit |-> left[j.df] * right[j.song]]
\* join(..., "left"): one row per matching pair, and one row with a NULL songs
\* side for every row of left that matches nothing
LeftJoin(left, right) ==
    LET pairs == {[df |-> d, song |-> s] : d \in DOMAIN left, s \in DOMAIN right}
        hit   == {j \in pairs : JoinCondition(j.df, j.song)}
        miss  == {[df |-> d, song |-> NullSong] :
                     d \in {x \in DOMAIN left : Matches(x, right) = {}}}
    IN  [j \in hit \cup miss |->
            IF j \in miss THEN left[j.df] ELSE left[j.df] * right[j.song]]

----------------------------------------------------------------------------
(* The tables each function computes *)

songs_table(df) ==
    DropDuplicates(Select(df, [r \in DOMAIN df |-> SongsColumns(r)]))
artists_table(df) ==
    DropDuplicates(Select(df, [r \in DOMAIN df |-> ArtistsColumns(r)]))
users_table(df) ==
    DropDuplicates(Select(df, [r \in DOMAIN df |-> UsersColumns(r)]))
\* lines 123-130: the log data frame with the seven time columns
with_time(df) == Select(df, [r \in DOMAIN df |-> WithTimeColumns(r)])
time_table(df) ==
    LET timed == with_time(df)
    IN  DropDuplicates(Select(timed, [r \in DOMAIN timed |-> TimeColumns(r)]))
songplays_table(df, songs) ==
    LET joined == LeftJoin(with_time(df), songs)
    IN  Select(joined, [j \in DOMAIN joined |-> SongplaysColumns(j)])

\* no filter on page
AllPages(df) == df
\* line 103: where("page = 'NextSong'")
FilterPage(df) == Where(df, {r \in DOMAIN df : SqlEq(r.page, "NextSong")})

----------------------------------------------------------------------------
(* State *)

Absent == [state |-> "absent", rows |-> EmptyFrame]
NoErr == [exception |-> "none", line |-> 0]

Init ==
    /\ pc = "idle"
    /\ caller = "none"
    /\ input = EmptyFrame
    /\ dataframe = EmptyFrame
    /\ song_df = EmptyFrame
    /\ tables = [t \in TableNames |-> Absent]
    /\ written = {}
    /\ last_write = [t \in TableNames |-> Absent]
    /\ err = NoErr

Ready == pc \in {"idle", "done", "failed"}

\* a read that loads an empty table from a path that does not exist
PathExistsAlways(t) == TRUE
\* a path spark.read can load
PathExists(t) == tables[t].state = "committed"

\* the locals of a function that has returned or raised
NoLocals ==
    /\ input' = EmptyFrame
    /\ dataframe' = EmptyFrame
    /\ song_df' = EmptyFrame

\* an uncaught exception: the call, and main when it made the call, end here
Raise(exception, line) ==
    /\ pc' = "failed"
    /\ err' = [exception |-> exception, line |-> line]
    /\ NoLocals

\* a write starts: overwrite mode deletes what the path holds before the job runs
BeginWrite(t) ==
    /\ tables' = [tables EXCEPT ![t] = [state |-> "writing",
                                        rows |-> SaveMode(@.rows, EmptyFrame)]]
    /\ written' = written \ {t}
    /\ UNCHANGED last_write

\* the job commits its rows
CommitWrite(t, rows) ==
    /\ tables' = [tables EXCEPT ![t] = [state |-> "committed",
                                        rows |-> SaveMode(@.rows, rows)]]
    /\ written' = written \cup {t}
    /\ last_write' = [last_write EXCEPT ![t] = [state |-> "committed", rows |-> rows]]

\* the job fails: nothing is committed, and what the path held is gone
AbortWrite(t) ==
    /\ tables' = [tables EXCEPT ![t] = Absent]
    /\ UNCHANGED <<written, last_write>>

----------------------------------------------------------------------------
(* main, lines 177-186, and a driver that calls the two functions itself *)

CallMain ==
    /\ Ready
    /\ pc' = "main_183"
    /\ caller' = "main"
    /\ err' = NoErr
    /\ written' = {}
    /\ UNCHANGED <<input, dataframe, song_df, tables, last_write>>

\* main calling process_log_data first
MainCallLogFirst ==
    /\ pc = "main_183"
    /\ pc' = "log_100"
    /\ UNCHANGED <<caller, input, dataframe, song_df, tables, written, last_write, err>>
\* line 183
MainCallSong ==
    /\ pc = "main_183"
    /\ pc' = "song_53"
    /\ UNCHANGED <<caller, input, dataframe, song_df, tables, written, last_write, err>>

\* line 184
MainCallLog ==
    /\ pc = "main_184"
    /\ pc' = "log_100"
    /\ UNCHANGED <<caller, input, dataframe, song_df, tables, written, last_write, err>>

\* line 186
MainStop ==
    /\ pc = "main_186"
    /\ pc' = "done"
    /\ UNCHANGED <<caller, input, dataframe, song_df, tables, written, last_write, err>>

DriverCallSong ==
    /\ Ready
    /\ pc' = "song_53"
    /\ caller' = "driver"
    /\ err' = NoErr
    /\ written' = {}
    /\ UNCHANGED <<input, dataframe, song_df, tables, last_write>>

DriverCallLog ==
    /\ Ready
    /\ pc' = "log_100"
    /\ caller' = "driver"
    /\ err' = NoErr
    /\ written' = {}
    /\ UNCHANGED <<input, dataframe, song_df, tables, last_write>>

\* a function returns to its caller: to the given line of main, or to the driver
Return(line) ==
    /\ pc' = IF caller = "main" THEN line ELSE "done"
    /\ NoLocals
    /\ UNCHANGED <<caller, tables, written, last_write, err>>

----------------------------------------------------------------------------
(* process_song_data, lines 37-81 *)

\* line 53: the read fails when the path pattern matches nothing
SongRead ==
    /\ pc = "song_53"
    /\ \E in \in Inputs(SongRecords, MaxRecords) :
          IF in = EmptyFrame
          THEN /\ Raise("AnalysisException", 53)
               /\ UNCHANGED <<caller, tables, written, last_write>>
          ELSE /\ input' = in
               /\ dataframe' = in
               /\ pc' = "song_62"
               /\ UNCHANGED <<caller, song_df, tables, written, last_write, err>>

\* lines 62-66
SongsWriteBegin ==
    /\ pc = "song_62"
    /\ BeginWrite("songs")
    /\ pc' = "song_62w"
    /\ UNCHANGED <<caller, input, dataframe, song_df, err>>

SongsWriteEnd ==
    /\ pc = "song_62w"
    /\ CommitWrite("songs", songs_table(dataframe))
    /\ pc' = "song_78"
    /\ UNCHANGED <<caller, input, dataframe, song_df, err>>

\* lines 78-81
ArtistsWriteBegin ==
    /\ pc = "song_78"
    /\ BeginWrite("artists")
    /\ pc' = "song_78w"
    /\ UNCHANGED <<caller, input, dataframe, song_df, err>>

ArtistsWriteEnd ==
    /\ pc = "song_78w"
    /\ CommitWrite("artists", artists_table(dataframe))
    /\ pc' = "song_81"
    /\ UNCHANGED <<caller, input, dataframe, song_df, err>>

SongReturn ==
    /\ pc = "song_81"
    /\ Return("main_184")

----------------------------------------------------------------------------
(* process_log_data, lines 84-174 *)

\* lines 100-103: the read fails when the path pattern matches nothing
LogRead ==
    /\ pc = "log_100"
    /\ \E in \in Inputs(LogRecords, MaxRecords) :
          IF in = EmptyFrame
          THEN /\ Raise("AnalysisException", 100)
               /\ UNCHANGED <<caller, tables, written, last_write>>
          ELSE /\ input' = in
               /\ dataframe' = FilterPage(ReadLogJson(in))
               /\ pc' = "log_115"
               /\ UNCHANGED <<caller, song_df, tables, written, last_write, err>>

\* lines 115-118
UsersWriteBegin ==
    /\ pc = "log_115"
    /\ BeginWrite("users")
    /\ pc' = "log_115w"
    /\ UNCHANGED <<caller, input, dataframe, song_df, err>>

UsersWriteEnd ==
    /\ pc = "log_115w"
    /\ CommitWrite("users", users_table(dataframe))
    /\ pc' = "log_139"
    /\ UNCHANGED <<caller, input, dataframe, song_df, err>>

\* the udf of line 121 raises in the job that first evaluates it
UdfFails(df) == \E r \in DOMAIN df : UdfRaises(r.ts)

\* lines 139-143
TimeWriteBegin ==
    /\ pc = "log_139"
    /\ BeginWrite("time")
    /\ pc' = "log_139w"
    /\ UNCHANGED <<caller, input, dataframe, song_df, err>>

TimeWriteEnd ==
    /\ pc = "log_139w"
    /\ ~UdfFails(dataframe)
    /\ CommitWrite("time", time_table(dataframe))
    /\ pc' = "log_146"
    /\ UNCHANGED <<caller, input, dataframe, song_df, err>>

TimeWriteFail ==
    /\ pc = "log_139w"
    /\ UdfFails(dataframe)
    /\ AbortWrite("time")
    /\ Raise("PythonException", 139)
    /\ UNCHANGED caller

\* line 146
SongsRead ==
    /\ pc = "log_146"
    /\ IF PathExists("songs")
       THEN /\ song_df' = tables["songs"].rows
            /\ pc' = "log_170"
            /\ UNCHANGED <<caller, input, dataframe, tables, written, last_write, err>>
       ELSE /\ Raise("AnalysisException", 146)
            /\ UNCHANGED <<caller, tables, written, last_write>>

\* lines 170-174
SongplaysWriteBegin ==
    /\ pc = "log_170"
    /\ BeginWrite("songplays")
    /\ pc' = "log_170w"
    /\ UNCHANGED <<caller, input, dataframe, song_df, err>>

SongplaysWriteEnd ==
    /\ pc = "log_170w"
    /\ CommitWrite("songplays", songplays_table(dataframe, song_df))
    /\ pc' = "log_174"
    /\ UNCHANGED <<caller, input, dataframe, song_df, err>>

LogReturn ==
    /\ pc = "log_174"
    /\ Return("main_186")

----------------------------------------------------------------------------

Next ==
    \/ CallMain
    \/ MainCallSong
    \/ MainCallLog
    \/ MainStop
    \/ DriverCallSong
    \/ DriverCallLog
    \/ SongRead
    \/ SongsWriteBegin
    \/ SongsWriteEnd
    \/ ArtistsWriteBegin
    \/ ArtistsWriteEnd
    \/ SongReturn
    \/ LogRead
    \/ UsersWriteBegin
    \/ UsersWriteEnd
    \/ TimeWriteBegin
    \/ TimeWriteEnd
    \/ TimeWriteFail
    \/ SongsRead
    \/ SongplaysWriteBegin
    \/ SongplaysWriteEnd
    \/ LogReturn

Spec == Init /\ [][Next]_vars

----------------------------------------------------------------------------
(* Vocabulary of the properties *)

\* the activity records of an input that are plays
Plays(in) == {r \in DOMAIN in : r.page = "NextSong"}

\* the three-field predicate between an activity record and a songs row
Satisfies(r, s) ==
    r.song = s.title /\ r.artist = s.artist_name /\ r.length = s.duration

\* the columns of a fact row that come from the activity record alone
OwnColumns(r) ==
    LET t == get_timestamp(r.ts)
    IN  [start_time |-> t, user_id |-> r.userId, level |-> r.level,
         session_id |-> r.sessionId, location |-> r.location,
         user_agent |-> r.userAgent, year |-> year(t), month |-> month(t)]

FactRow(r, sid, aid) == OwnColumns(r) @@ [song_id |-> sid, artist_id |-> aid]

OwnPart(row) ==
    [start_time |-> row.start_time, user_id |-> row.user_id, level |-> row.level,
     session_id |-> row.session_id, location |-> row.location,
     user_agent |-> row.user_agent, year |-> row.year, month |-> row.month]

\* how many rows of a bag equal row
CountOf(b, row) == IF row \in DOMAIN b THEN b[row] ELSE 0

\* positions of process_log_data after its read
InLog ==
    pc \in {"log_115", "log_115w", "log_139", "log_139w", "log_146", "log_170",
            "log_170w", "log_174"}
\* positions of process_log_data after the users, time and songplays writes
AfterUsers == pc \in {"log_139", "log_139w", "log_146", "log_170", "log_170w", "log_174"}
AfterTime == pc \in {"log_146", "log_170", "log_170w", "log_174"}
AfterSongRead == pc \in {"log_170", "log_170w", "log_174"}
AfterSongplays == pc = "log_174"
\* positions of process_song_data after the songs and artists writes
AfterSongs == pc \in {"song_78", "song_78w", "song_81"}
AfterArtists == pc = "song_81"

----------------------------------------------------------------------------
(* C1: songplays has exactly as many rows as the input has activity records
   with page = 'NextSong', also when several songs rows match one record. *)
C1_RowCount ==
    AfterSongplays =>
        Count(tables["songplays"].rows) = SumOver(input, Plays(input))

(* C2: no two rows of songs share a song_id and no two rows of artists share an
   artist_id. *)
C2_UniqueKeys ==
    /\ tables["songs"].state = "committed" =>
          \A r1, r2 \in Rows(tables["songs"].rows) :
              r1.song_id = r2.song_id => r1 = r2
    /\ tables["artists"].state = "committed" =>
          \A r1, r2 \in Rows(tables["artists"].rows) :
              r1.artist_id = r2.artist_id => r1 = r2

(* C3: every row of users, time and songplays is the projection of at least one
   activity record of the input whose page is 'NextSong'. *)
C3_OnlyNextSong ==
    /\ AfterUsers =>
          \A row \in Rows(tables["users"].rows) :
              \E r \in Plays(input) : UsersColumns(r) = row
    /\ AfterTime =>
          \A row \in Rows(tables["time"].rows) :
              \E r \in Plays(input) : TimeColumns(WithTimeColumns(r)) = row
    /\ AfterSongplays =>
          \A row \in Rows(tables["songplays"].rows) :
              \E r \in Plays(input) : OwnColumns(r) = OwnPart(row)

C3_Witness ==
    /\ AfterSongplays
    /\ \E r \in Rows(input) : r.page # "NextSong"
    /\ Plays(input) # {}
    /\ Rows(tables["songplays"].rows) # {}
    /\ Rows(tables["users"].rows) # {}

(* C4: for a play and a persisted songs row that agree on title, artist name and
   duration, songplays has a row for the play with that songs row's song_id and
   artist_id, both non-null. *)
C4_MatchResolved ==
    AfterSongplays =>
        \A r \in Plays(input) : \A s \in Rows(tables["songs"].rows) :
            Satisfies(r, s) =>
                /\ s.song_id # Null
                /\ s.artist_id # Null
                /\ FactRow(r, s.song_id, s.artist_id) \in Rows(tables["songplays"].rows)

C4_Witness ==
    /\ AfterSongplays
    /\ \E r \in Plays(input) : \E s \in Rows(tables["songs"].rows) :
          /\ Satisfies(r, s)
          /\ FactRow(r, s.song_id, s.artist_id) \in Rows(tables["songplays"].rows)

(* C5: a play that no persisted songs row matches on the three fields has its
   row in songplays, with song_id and artist_id null and the play's own
   start_time, user_id, level, session_id, location and user_agent; there are
   as many such rows as there are such plays. *)
C5_NoMatchNull ==
    AfterSongplays =>
        \A r \in Plays(input) :
            (\A s \in Rows(tables["songs"].rows) : ~Satisfies(r, s)) =>
                CountOf(tables["songplays"].rows, FactRow(r, Null, Null)) =
                    SumOver(input, {q \in Plays(input) :
                        /\ OwnColumns(q) = OwnColumns(r)
                        /\ \A s \in Rows(tables["songs"].rows) : ~Satisfies(q, s)})

C5_Witness ==
    /\ AfterSongplays
    /\ \E r \in Plays(input) :
          /\ r.song = Null
          /\ FactRow(r, Null, Null) \in Rows(tables["songplays"].rows)
    /\ \E r \in Plays(input) : \E s \in Rows(tables["songs"].rows) : Satisfies(r, s)

(* C6: songs and artists hold no two rows equal on all columns, and extracting
   again from the table already written gives back that table. *)
C6_NoDuplicateRows ==
    /\ tables["songs"].state = "committed" =>
          /\ \A row \in Rows(tables["songs"].rows) : tables["songs"].rows[row] = 1
          /\ songs_table(tables["songs"].rows) = tables["songs"].rows
    /\ tables["artists"].state = "committed" =>
          /\ \A row \in Rows(tables["artists"].rows) : tables["artists"].rows[row] = 1
          /\ DropDuplicates(tables["artists"].rows) = tables["artists"].rows

C6_Witness ==
    /\ AfterArtists
    /\ Count(input) > Count(tables["songs"].rows)
    /\ Count(input) > Count(tables["artists"].rows)

(* C7: in an execution of main, when process_log_data reads the songs table
   the write of it by process_song_data in this execution has committed, and
   the table is never being written while process_log_data runs. *)
C7_SongsBeforeJoin ==
    /\ (caller = "main" /\ (pc = "log_146" \/ AfterSongRead)) =>
          /\ tables["songs"].state = "committed"
          /\ "songs" \in written
    /\ AfterSongRead => song_df = tables["songs"].rows
    /\ tables["songs"].state = "writing" => pc = "song_62w"

C7_Witness ==
    /\ caller = "main"
    /\ pc = "log_170"
    /\ song_df # EmptyFrame

(* C8: when the songs table has not been produced, process_log_data fails at
   its read of it, with the engine's error for a missing path, and no songplays
   table is written. *)
C8_MissingSongs ==
    /\ (pc = "log_170" \/ pc = "log_170w" \/ pc = "log_174") =>
          tables["songs"].state = "committed"
    /\ (pc = "failed" /\ err.line = 146) =>
          /\ err.exception = "AnalysisException"
          /\ tables["songs"].state = "absent"
          /\ tables["songplays"].state = "absent"
          /\ "songplays" \notin written

C8_Witness ==
    /\ pc = "failed"
    /\ err.line = 146
    /\ tables["time"].state = "committed"

(* C9: process_log_data fails, and writes neither time nor songplays, whenever
   a play's ts is non-numeric or negative. *)
C9_MalformedTs ==
    (InLog /\ \E r \in Plays(input) : r.ts.kind # "number" \/ r.ts.val < 0) =>
        /\ ~AfterTime
        /\ "time" \notin written
        /\ "songplays" \notin written

(* C10 as stated: after any sequence of runs every table holds exactly the rows
   derived from the input of the most recent run that wrote it. *)
C10_LastWriteSurvives ==
    Ready =>
        \A t \in TableNames :
            last_write[t].state = "committed" => tables[t] = last_write[t]

(* C10 as amended: a table that exists holds exactly the rows of its most recent
   committed write, which are the rows derived from that run's input whatever
   the table held before; a table being overwritten, or whose overwrite failed,
   holds no row. *)
C10_Overwrite ==
    /\ \A t \in TableNames :
          IF tables[t].state = "committed"
          THEN tables[t].rows = last_write[t].rows
          ELSE tables[t].rows = EmptyFrame
    /\ AfterSongs => tables["songs"].rows = songs_table(input)
    /\ AfterArtists => tables["artists"].rows = artists_table(input)
    /\ AfterUsers =>
          tables["users"].rows = users_table(FilterPage(ReadLogJson(input)))
    /\ AfterTime =>
          tables["time"].rows = time_table(FilterPage(ReadLogJson(input)))
    /\ AfterSongplays =>
          tables["songplays"].rows =
              songplays_table(FilterPage(ReadLogJson(input)), tables["songs"].rows)

C10_Witness ==
    /\ pc = "song_78"
    /\ tables["songs"].rows = songs_table(input)
    /\ tables["artists"].state = "committed"
    /\ tables["artists"].rows # artists_table(input)

====
